---- MODULE Spec2Model ----
(***************************************************************************)
(* Sector aggregation and sector cache of price-action-analysis:           *)
(* src/src/price_action_analysis/data_loader.py.                           *)
(*                                                                         *)
(* Returns are exact rationals in units of 0.01 (0.02 is 2/1); a missing   *)
(* cell is NaN.  A DataFrame is a record of its index, its column labels   *)
(* and its rows.  The disk cache maps a cache path to a file.              *)
(***************************************************************************)
EXTENDS Integers, Sequences, FiniteSets, TLC

\* ------------------------------------------------------------ bounds

\* largest explicit max_concurrency argument a caller passes (besides the default)
MaxConcurrencyArg == 2

\* ------------------------------------------------------------ constants

MONTHS == <<"Jan", "Feb", "Mar", "Apr", "May", "Jun",
            "Jul", "Aug", "Sep", "Oct", "Nov", "Dec">>

\* default of the max_concurrency parameter
DefaultMaxConcurrency == 8

\* ------------------------------------------------------------ numbers

\* A cell is a float64.  It is held as the rational num/den in hundredths that
\* its arithmetic aims at, and the number ulp of units in the last place by
\* which the float64 the code computed lies above (below, when negative) the
\* float64 nearest to that rational.

NaN == [nan |-> TRUE, num |-> 0, den |-> 1, ulp |-> 0]

\* the float64 nearest to n/100
Val(n) == [nan |-> FALSE, num |-> n, den |-> 1, ulp |-> 0]

Abs(n) == IF n < 0 THEN -n ELSE n

RECURSIVE GCD(_, _)
GCD(a, b) == IF b = 0 THEN a ELSE GCD(b, a % b)

\* the rational n/d in lowest terms, d > 0
Rat(n, d) ==
    LET g == GCD(Abs(n), d)
    IN  [nan |-> FALSE, num |-> n \div g, den |-> d \div g, ulp |-> 0]

RatAdd(x, y) == Rat(x.num * y.den + y.num * x.den, x.den * y.den)

RECURSIVE RatSum(_)
RatSum(cells) ==
    IF cells = <<>> THEN Val(0)
    ELSE RatAdd(Head(cells), RatSum(Tail(cells)))

\* the cells of a sequence that are not NaN, in order
RECURSIVE dropna(_)
dropna(cells) ==
    IF cells = <<>> THEN <<>>
    ELSE IF Head(cells).nan THEN dropna(Tail(cells))
         ELSE <<Head(cells)>> \o dropna(Tail(cells))

\* variant of mean: a missing cell counts as zero
mean_nan_as_zero(cells) ==
    LET present == dropna(cells)
        s == RatSum(present)
    IN  IF present = <<>> THEN NaN
        ELSE Rat(s.num, s.den * Len(cells))

\* variant of mean: the sum is not divided by the count
mean_as_sum(cells) ==
    LET present == dropna(cells)
    IN  IF present = <<>> THEN NaN ELSE RatSum(present)

\* The rounding of the mean of a group: the values are added in float64 in
\* the order of the rows (compensated summation) and the sum is divided by
\* their number.  ks are the values in hundredths, in row order; the result
\* is the number of units in the last place between the float64 computed and
\* the float64 nearest to the exact mean.  Tabulated from IEEE 754 double
\* arithmetic for the groups of up to MaxGroup values in CellRange; the
\* sequences not listed give the nearest float64.
MaxGroup == 3

CellRange == -1..5

OneAbove ==
    { <<1, 5>>, <<5, 1>>, <<1, 2, -1>>, <<1, 5, 5>>, <<2, 4, 5>>, <<2, 5, 2>>,
      <<2, 5, 4>>, <<5, 1, 5>>, <<5, 5, -1>>, <<5, 5, 5>> }

OneBelow == { <<-1, 3>>, <<3, -1>>, <<3, 3, 1>> }

TwoBelow ==
    { <<-1, -1, 3>>, <<-1, 0, 3>>, <<-1, 3, 0>>, <<-1, 3, 2>>, <<-1, 4, -1>>,
      <<0, -1, 3>>, <<0, 3, -1>>, <<3, -1, -1>>, <<3, -1, 0>>, <<3, 0, -1>> }

ThreeBelow == { <<-1, 3, -1>> }

rounding(ks) ==
    IF ks \in OneAbove THEN 1
    ELSE IF ks \in OneBelow THEN -1
    ELSE IF ks \in TwoBelow THEN -2
    ELSE IF ks \in ThreeBelow THEN -3
    ELSE 0

\* mean of a column of a group, skipping NaN; NaN when nothing is left
mean(cells) ==
    LET present == dropna(cells)
        s == RatSum(present)
    IN  IF present = <<>> THEN NaN
        ELSE [Rat(s.num, s.den * Len(present))
                EXCEPT !.ulp = rounding([k \in 1..Len(present) |-> present[k].num])]

\* ------------------------------------------------------------ frames

EmptyFrame == [index |-> <<>>, columns |-> MONTHS, values |-> <<>>]

empty(df) == Len(df.index) = 0 \/ Len(df.columns) = 0

\* position of a label in a sequence of labels, 0 when absent
RECURSIVE IndexOf(_, _)
IndexOf(labels, x) ==
    IF labels = <<>> THEN 0
    ELSE IF labels[Len(labels)] = x /\ IndexOf(SubSeq(labels, 1, Len(labels) - 1), x) = 0
         THEN Len(labels)
         ELSE IndexOf(SubSeq(labels, 1, Len(labels) - 1), x)

\* df.reindex(columns=cols): the columns cols in that order, NaN where df has none
reindex(df, cols) ==
    [index   |-> df.index,
     columns |-> cols,
     values  |-> [r \in 1..Len(df.index) |->
                    [c \in 1..Len(cols) |->
                        IF IndexOf(df.columns, cols[c]) = 0 THEN NaN
                        ELSE df.values[r][IndexOf(df.columns, cols[c])]]]]

\* analysis[MONTHS]: column selection (every label is present after the
\* reindex of get_monthly_analysis)
SelectMonths(df) ==
    [index   |-> df.index,
     columns |-> MONTHS,
     values  |-> [r \in 1..Len(df.index) |->
                    [c \in 1..Len(MONTHS) |->
                        df.values[r][IndexOf(df.columns, MONTHS[c])]]]]

\* pd.concat(frames, keys=keys, names=["symbol", "year"]): rows stacked in
\* order, each indexed by (symbol, year)
RECURSIVE concat(_, _)
concat(frames, keys) ==
    IF frames = <<>> THEN [index |-> <<>>, columns |-> MONTHS, values |-> <<>>]
    ELSE LET rest == concat(Tail(frames), Tail(keys))
             f == Head(frames)
         IN  [index   |-> [r \in 1..Len(f.index) |-> <<Head(keys), f.index[r]>>]
                          \o rest.index,
              columns |-> f.columns,
              values  |-> f.values \o rest.values]

\* ascending sequence of a finite set of integers
RECURSIVE SortedSeq(_)
SortedSeq(S) ==
    IF S = {} THEN <<>>
    ELSE LET m == CHOOSE x \in S : \A y \in S : x <= y
         IN  <<m>> \o SortedSeq(S \ {m})

\* the cells of column c in the rows of combined whose year is y, in row order
RECURSIVE GroupColumn(_, _, _, _)
GroupColumn(combined, y, c, r) ==
    IF r > Len(combined.index) THEN <<>>
    ELSE IF combined.index[r][2] = y
         THEN <<combined.values[r][c]>> \o GroupColumn(combined, y, c, r + 1)
         ELSE GroupColumn(combined, y, c, r + 1)

\* variant of groupby_year_mean: the first value of each group that is not
\* missing is taken, as groupby("year").first() does
groupby_year_first(combined) ==
    LET years == SortedSeq({combined.index[r][2] : r \in 1..Len(combined.index)})
    IN  [index   |-> years,
         columns |-> combined.columns,
         values  |-> [g \in 1..Len(years) |->
                        [c \in 1..Len(combined.columns) |->
                            LET present == dropna(GroupColumn(combined, years[g], c, 1))
                            IN  IF present = <<>> THEN NaN ELSE Head(present)]]]

\* combined.groupby("year").mean(numeric_only=True): one row per year, sorted
groupby_year_mean(combined) ==
    LET years == SortedSeq({combined.index[r][2] : r \in 1..Len(combined.index)})
    IN  [index   |-> years,
         columns |-> combined.columns,
         values  |-> [g \in 1..Len(years) |->
                        [c \in 1..Len(combined.columns) |->
                            mean(GroupColumn(combined, years[g], c, 1))]]]

\* ------------------------------------------------------------ cache path

\* a str is the sequence of its code points

\* the printable ASCII characters U+0020..U+005F and U+0061..U+007E, in code
\* point order (U+0060 cannot be written in a string of this language)
PrintableLow == " !\"#$%&'()*+,-./0123456789:;<=>?@ABCDEFGHIJKLMNOPQRSTUVWXYZ[\\]^_"

PrintableHigh == "abcdefghijklmnopqrstuvwxyz{|}~"

\* the position of character c in string s, 0 when it is not there
position(s, c) ==
    IF \E k \in 1..Len(s) : SubSeq(s, k, k) = c
    THEN CHOOSE k \in 1..Len(s) : SubSeq(s, k, k) = c
    ELSE 0

\* ord(c) for a printable ASCII character c
ord(c) ==
    IF position(PrintableLow, c) > 0 THEN 31 + position(PrintableLow, c)
    ELSE 96 + position(PrintableHigh, c)

\* the str of printable ASCII characters that is written s
str(s) == [i \in 1..Len(s) |-> ord(SubSeq(s, i, i))]

Letters == (ord("a")..ord("z")) \cup (ord("A")..ord("Z"))

Digits == ord("0")..ord("9")

\* the character class [A-Za-z0-9_-]
SafeChars == Letters \cup Digits \cup {ord("_"), ord("-")}

\* the characters str.strip() removes, those str.isspace() holds for:
\* U+0009..U+000D, U+001C..U+0020, U+0085, U+00A0, U+1680, U+2000..U+200A,
\* U+2028, U+2029, U+202F, U+205F and U+3000
Whitespace ==
    (9..13) \cup (28..32) \cup {133, 160, 5760} \cup (8192..8202)
    \cup {8232, 8233, 8239, 8287, 12288}

RECURSIVE lstrip(_)
lstrip(s) ==
    IF s # <<>> /\ Head(s) \in Whitespace THEN lstrip(Tail(s)) ELSE s

RECURSIVE rstrip(_)
rstrip(s) ==
    IF s # <<>> /\ s[Len(s)] \in Whitespace
    THEN rstrip(SubSeq(s, 1, Len(s) - 1))
    ELSE s

\* str.strip()
strip(s) == rstrip(lstrip(s))

\* the replacement "_"
Underscore == ord("_")

\* the suffix ".parquet"
ParquetSuffix == str(".parquet")

\* variant of re_sub_unsafe: the pattern has no +, every character outside
\* the class becomes an underscore of its own
RECURSIVE re_sub_each(_, _)
re_sub_each(s, inRun) ==
    IF s = <<>> THEN <<>>
    ELSE IF Head(s) \in SafeChars
         THEN <<Head(s)>> \o re_sub_each(Tail(s), FALSE)
         ELSE <<Underscore>> \o re_sub_each(Tail(s), TRUE)

\* re.sub(r"[^A-Za-z0-9_-]+", "_", s): every maximal run of characters
\* outside the class becomes one underscore
RECURSIVE re_sub_unsafe(_, _)
re_sub_unsafe(s, inRun) ==
    IF s = <<>> THEN <<>>
    ELSE IF Head(s) \in SafeChars
         THEN <<Head(s)>> \o re_sub_unsafe(Tail(s), FALSE)
         ELSE IF inRun THEN re_sub_unsafe(Tail(s), TRUE)
              ELSE <<Underscore>> \o re_sub_unsafe(Tail(s), TRUE)

\* the file name under SECTOR_DIR of a sector's cache entry
get_cache_path_for_sector(sector) ==
    re_sub_unsafe(strip(sector), FALSE) \o ParquetSuffix

\* ------------------------------------------------------------ inputs

Media == str("Media")

OilGas == str("Oil & Gas")

Realty == str("Realty")

\* the sector names callers ask for; Realty has no row in the metadata
SectorArgs == {Media, Realty}

\* sector names that differ from Media and from OilGas in case, in
\* whitespace or in punctuation
MediaLower == str("media")

MediaPadded == str(" Media ")

\* Media after a form feed (U+000C)
MediaFormFeed == <<12>> \o Media

\* Media before a no-break space (U+00A0)
MediaNoBreak == Media \o <<160>>

\* Media after an em space (U+2003)
MediaEmSpace == <<8195>> \o Media

OilGasComma == str("Oil, Gas")

OilGasSpace == str("Oil Gas")

OilGasPlain == str("OilGas")

OilGasHyphen == str("Oil-Gas")

\* "Oil & Gas" with '/' in the place of '&'
OilGasSlash == str("Oil / Gas")

\* "Caf" and e with acute accent (U+00E9), a letter outside A-Z and a-z
CafeLower == str("Caf") \o <<233>>

\* "Caf" and E with acute accent (U+00C9)
CafeUpper == str("Caf") \o <<201>>

NameArgs == {Media, MediaLower, MediaPadded, MediaFormFeed, MediaNoBreak, MediaEmSpace, OilGas,
             OilGasComma, OilGasSpace, OilGasPlain, OilGasHyphen, OilGasSlash,
             CafeLower, CafeUpper}

\* a membership table whose sector names include names that differ in case
\* or in punctuation only
NamesDf ==
    << [symbol |-> "A", sector |-> Media],
       [symbol |-> "C", sector |-> MediaLower],
       [symbol |-> "D", sector |-> OilGas],
       [symbol |-> "B", sector |-> OilGasComma] >>

\* a missing symbol of the metadata
NA == "<NA>"

\* a missing sector of the metadata (None or NaN, no str)
NoSector == <<-1>>

\* a sector of blanks
Blank == str("  ")

\* a membership table with a sector name padded by blanks, one padded by a
\* form feed, one padded by an em space, a blank one and a missing one
BulkDf ==
    << [symbol |-> "D", sector |-> OilGas],
       [symbol |-> "A", sector |-> Media],
       [symbol |-> "B", sector |-> Media],
       [symbol |-> "C", sector |-> MediaPadded],
       [symbol |-> "C", sector |-> MediaFormFeed],
       [symbol |-> "C", sector |-> MediaEmSpace],
       [symbol |-> "C", sector |-> Blank],
       [symbol |-> "C", sector |-> NoSector] >>

\* the membership table (stock_df): one row per listed stock
StockDf ==
    << [symbol |-> "A", sector |-> Media],
       [symbol |-> "B", sector |-> Media],
       [symbol |-> NA,  sector |-> Media],
       [symbol |-> "A", sector |-> Media],
       [symbol |-> "C", sector |-> Media],
       [symbol |-> "D", sector |-> OilGas] >>

Symbols == {"A", "B", "C", "D"}

Row(y, jan, feb) ==
    [c \in 1..Len(MONTHS) |-> IF c = 1 THEN jan ELSE IF c = 2 THEN feb ELSE NaN]

\* 2020: Jan = 0.02, Feb = -0.01
MatrixA ==
    [index |-> <<2020>>, columns |-> MONTHS,
     values |-> <<Row(2020, Val(2), Val(-1))>>]

\* 2020: Jan = 0.04, Feb missing
MatrixB ==
    [index |-> <<2020>>, columns |-> MONTHS,
     values |-> <<Row(2020, Val(4), NaN)>>]

\* 2020: Jan = 0.05, Feb = 0.02; 2021: Jan missing, Feb = 0.03
MatrixC ==
    [index |-> <<2020, 2021>>, columns |-> MONTHS,
     values |-> <<Row(2020, Val(5), Val(2)), Row(2021, NaN, Val(3))>>]

\* 2021: Jan = 0.05, Feb = 0.05
MatrixD ==
    [index |-> <<2021>>, columns |-> MONTHS,
     values |-> <<Row(2021, Val(5), Val(5))>>]

\* the year x month matrix of a ticker's price history
History(ticker) ==
    IF ticker = "A" THEN MatrixA
    ELSE IF ticker = "B" THEN MatrixB
    ELSE IF ticker = "C" THEN MatrixC
    ELSE MatrixD

\* an aggregate left in the cache by an earlier run
StaleMatrix ==
    [index |-> <<2019>>, columns |-> MONTHS,
     values |-> <<Row(2019, Val(1), Val(1))>>]

\* what get_monthly_analysis(ticker) can do: raise, return an empty frame,
\* or return a year x month matrix
Raises == [kind |-> "raise", frame |-> EmptyFrame]

Returns(df) == [kind |-> "return", frame |-> df]

\* the outcomes of get_monthly_analysis(ticker): the download fails, has no
\* rows, or yields the ticker's history
Outcomes(ticker) == {Raises, Returns(EmptyFrame), Returns(History(ticker))}

\* ------------------------------------------------------------ parquet files

\* variant of parquet_table: the index is not stored (index=False), so the
\* frame read back has no years
parquet_table_no_index(df) ==
    [magic  |-> "PAR1",
     schema |-> df.columns,
     year   |-> <<>>,
     chunks |-> [c \in 1..Len(df.columns) |->
                    [r \in 1..Len(df.index) |-> df.values[r][c]]]]

\* what DataFrame.to_parquet stores: the index becomes the column "year",
\* the cells are laid out column by column
parquet_table(df) ==
    [magic  |-> "PAR1",
     schema |-> df.columns,
     year   |-> df.index,
     chunks |-> [c \in 1..Len(df.columns) |->
                    [r \in 1..Len(df.index) |-> df.values[r][c]]]]

\* the length of the file of a table, in blocks: the data take one block for
\* each row (a file of more rows is longer), the footer is the last block
file_size(table) == Len(table.chunks[1]) + 1

\* a block no writer has written: the gap a write behind the end of a file
\* leaves
Hole == [of |-> [magic |-> "", schema |-> <<>>, year |-> <<>>, chunks |-> <<>>], at |-> 0]

\* the bytes of the file result.to_parquet(cache_path) writes: block k of
\* the table at position k
to_parquet_bytes(df) ==
    [k \in 1..file_size(parquet_table(df)) |-> [of |-> parquet_table(df), at |-> k]]

\* bytes of a file that is no parquet file: it is empty (truncated, nothing
\* written)
Garbage == <<>>

\* pd.read_parquet succeeds on these bytes: they are the blocks of one
\* table, all of them and nothing else
readable(bytes) ==
    /\ bytes # <<>>
    /\ bytes[1].of.magic = "PAR1"
    /\ Len(bytes) = file_size(bytes[1].of)
    /\ \A k \in 1..Len(bytes) : bytes[k] = [of |-> bytes[1].of, at |-> k]

\* pd.read_parquet: the frame of readable bytes, rows rebuilt from the columns
read_parquet(bytes) ==
    LET table == bytes[1].of
    IN  [index   |-> table.year,
         columns |-> table.schema,
         values  |-> [r \in 1..Len(table.chunks[1]) |->
                        [c \in 1..Len(table.schema) |-> table.chunks[c][r]]]]

\* the bytes of a file after blocks were written behind position offset:
\* what was there is overwritten, a shorter file grows
write_at(bytes, offset, blocks) ==
    [k \in 1..(IF Len(bytes) > offset + Len(blocks) THEN Len(bytes)
                ELSE offset + Len(blocks)) |->
        IF k > offset /\ k <= offset + Len(blocks) THEN blocks[k - offset]
        ELSE IF k <= Len(bytes) THEN bytes[k]
        ELSE Hole]

NoFile == [exists |-> FALSE, bytes |-> Garbage, mtime |-> 0]

\* a file written by an earlier run (mtime 0) or by this one (mtime 1)
File(bytes, mtime) == [exists |-> TRUE, bytes |-> bytes, mtime |-> mtime]

\* the sectors of the membership table
RECURSIVE sectors_of(_)
sectors_of(df) ==
    IF df = <<>> THEN {} ELSE {Head(df).sector} \cup sectors_of(Tail(df))

Paths ==
    {get_cache_path_for_sector(s) : s \in SectorArgs \cup sectors_of(StockDf) \cup NameArgs}

\* ------------------------------------------------------------ aggregator, pure part

\* variant of sector_symbols: unique() is missing, a symbol listed twice is
\* kept twice
RECURSIVE sector_symbols_dups(_, _, _)
sector_symbols_dups(df, sector, seen) ==
    IF df = <<>> THEN <<>>
    ELSE LET row == Head(df)
         IN  IF row.sector = sector /\ row.symbol # NA
             THEN <<row.symbol>> \o sector_symbols_dups(Tail(df), sector, seen)
             ELSE sector_symbols_dups(Tail(df), sector, seen)

\* stock_df.loc[stock_df["sector"] == sector, "symbol"].dropna().unique().tolist()
RECURSIVE sector_symbols(_, _, _)
sector_symbols(df, sector, seen) ==
    IF df = <<>> THEN <<>>
    ELSE LET row == Head(df)
         IN  IF row.sector = sector /\ row.symbol # NA /\ row.symbol \notin seen
             THEN <<row.symbol>> \o sector_symbols(Tail(df), sector, seen \cup {row.symbol})
             ELSE sector_symbols(Tail(df), sector, seen)

\* one entry of results: None, or the pair (ticker, analysis[MONTHS]);
\* Pending is the slot of a task that has not finished
None == [st |-> "none", ticker |-> "", frame |-> EmptyFrame]

Pending == [st |-> "pending", ticker |-> "", frame |-> EmptyFrame]

Some(ticker, df) == [st |-> "some", ticker |-> ticker, frame |-> df]

\* _fetch(ticker) on outcome o of get_monthly_analysis
fetch_result(ticker, o) ==
    IF o.kind = "raise" THEN None
    ELSE IF empty(o.frame) THEN None
    ELSE Some(ticker, SelectMonths(o.frame))

\* the loop over results: the entries that are not None, in order
RECURSIVE retrieved_of(_)
retrieved_of(results) ==
    IF results = <<>> THEN <<>>
    ELSE IF Head(results).st # "some" THEN retrieved_of(Tail(results))
         ELSE <<Head(results)>> \o retrieved_of(Tail(results))

\* concat, groupby("year").mean and reindex over the retrieved matrices
sector_monthly(retrieved) ==
    LET frames == [k \in 1..Len(retrieved) |-> retrieved[k].frame]
        keys == [k \in 1..Len(retrieved) |-> retrieved[k].ticker]
    IN  reindex(groupby_year_mean(concat(frames, keys)), MONTHS)

\* ------------------------------------------------------------ state

\* callers of get_sector_monthly_analysis (Streamlit script runs, the CLI)
Procs == {1, 2}

\* the max_concurrency arguments of the model
ConcurrencyArgs == (-1..MaxConcurrencyArg) \cup {DefaultMaxConcurrency}

NoArg == [sector |-> <<>>, stock_df |-> <<>>, use_cache |-> FALSE,
          force_refresh |-> FALSE, max_concurrency |-> 0]

NoOutcome == [kind |-> "none", value |-> EmptyFrame, error |-> ""]

Return(df) == [kind |-> "return", value |-> df, error |-> ""]

Raise(e) == [kind |-> "raise", value |-> EmptyFrame, error |-> e]

NotFetched == [kind |-> "unfetched", frame |-> EmptyFrame]

\* force_rewrite_all_sector_caches is not running
NoRewrite == [pc |-> "off", stock_df |-> <<>>, sectors |-> <<>>, k |-> 0,
              status |-> {}, computed |-> {}]

VARIABLES
    cache,      \* SECTOR_DIR: cache path -> file
    pc,         \* per caller: where its call of get_sector_monthly_analysis is
    arg,        \* per caller: the arguments of the call
    tickers,    \* per caller: the local tickers
    sem,        \* per caller: value of the semaphore of _gather
    task,       \* per caller: state of each task of _gather, by ticker position
    results,    \* per caller: the local results
    cursor,     \* per caller: position of the fallback loop in tickers
    retrieved,  \* per caller: stock_monthly_results zipped with retrieved_tickers
    result,     \* per caller: the local result
    outcome,    \* per caller: what the call returned or raised
    strategy,   \* per caller: "hit", "concurrent" or "sequential" once decided
    wstatus,    \* per caller: the cache write of the call: "none"; inside to_parquet
                \* "open" (the file is at the path) or "detached" (it was unlinked);
                \* "ok"; "failed"
    unlinked,   \* per caller: how the unlink of an unreadable entry went
    cache0,     \* per caller: the cache when the call started
    fetches,    \* per caller: get_monthly_analysis calls issued, by ticker
    observed,   \* per caller: what get_monthly_analysis did, by ticker
    rewrite     \* force_rewrite_all_sector_caches: its position and locals

vars == <<cache, pc, arg, tickers, sem, task, results, cursor, retrieved, result,
          outcome, strategy, wstatus, unlinked, cache0, fetches, observed, rewrite>>

locals == <<tickers, sem, task, results, cursor, retrieved, result>>

cache_path(p) == get_cache_path_for_sector(arg[p].sector)

\* the entry of the caller's sector when its call started
entry0(p) == cache0[p][cache_path(p)]

\* the callers that hold the file at path open for writing: they are inside
\* to_parquet and the file they opened has not been unlinked since
writers(path) ==
    {q \in Procs : /\ pc[q] \in {"writing", "flushing"}
                   /\ wstatus[q] = "open"
                   /\ cache_path(q) = path}

\* per-ticker fetches of caller p that are inside the semaphore
in_flight(p) == Cardinality({i \in DOMAIN task[p] : task[p][i] = "running"})

\* no call of get_sector_monthly_analysis is under way
NoCalls ==
    /\ pc = [p \in Procs |-> "idle"]
    /\ arg = [p \in Procs |-> NoArg]
    /\ tickers = [p \in Procs |-> <<>>]
    /\ sem = [p \in Procs |-> 0]
    /\ task = [p \in Procs |-> <<>>]
    /\ results = [p \in Procs |-> <<>>]
    /\ cursor = [p \in Procs |-> 0]
    /\ retrieved = [p \in Procs |-> <<>>]
    /\ result = [p \in Procs |-> EmptyFrame]
    /\ outcome = [p \in Procs |-> NoOutcome]
    /\ strategy = [p \in Procs |-> "none"]
    /\ wstatus = [p \in Procs |-> "none"]
    /\ unlinked = [p \in Procs |-> "none"]
    /\ cache0 = [p \in Procs |-> cache]
    /\ fetches = [p \in Procs |-> [t \in Symbols |-> 0]]
    /\ observed = [p \in Procs |-> [t \in Symbols |-> NotFetched]]
    /\ rewrite = NoRewrite

\* the cache directory a run starts with: empty, or holding the aggregates
\* an earlier run wrote
Init ==
    /\ cache \in {[q \in Paths |-> NoFile],
                  [q \in Paths |-> File(to_parquet_bytes(StaleMatrix), 0)]}
    /\ NoCalls

\* ------------------------------------------------------------ get_sector_monthly_analysis

\* the call is entered: arguments bound, cache path computed
Call(p, sector, stock_df, use_cache, force_refresh, max_concurrency) ==
    /\ pc[p] = "idle"
    /\ arg' = [arg EXCEPT ![p] = [sector |-> sector, stock_df |-> stock_df,
                                  use_cache |-> use_cache,
                                  force_refresh |-> force_refresh,
                                  max_concurrency |-> max_concurrency]]
    /\ pc' = [pc EXCEPT ![p] = "cache_check"]
    /\ tickers' = [tickers EXCEPT ![p] = <<>>]
    /\ sem' = [sem EXCEPT ![p] = 0]
    /\ task' = [task EXCEPT ![p] = <<>>]
    /\ results' = [results EXCEPT ![p] = <<>>]
    /\ cursor' = [cursor EXCEPT ![p] = 0]
    /\ retrieved' = [retrieved EXCEPT ![p] = <<>>]
    /\ result' = [result EXCEPT ![p] = EmptyFrame]
    /\ outcome' = [outcome EXCEPT ![p] = NoOutcome]
    /\ strategy' = [strategy EXCEPT ![p] = "none"]
    /\ wstatus' = [wstatus EXCEPT ![p] = "none"]
    /\ unlinked' = [unlinked EXCEPT ![p] = "none"]
    /\ cache0' = [cache0 EXCEPT ![p] = cache]
    /\ fetches' = [fetches EXCEPT ![p] = [t \in Symbols |-> 0]]
    /\ observed' = [observed EXCEPT ![p] = [t \in Symbols |-> NotFetched]]
    /\ UNCHANGED <<cache, rewrite>>

\* variant of CacheCheck: an entry of an earlier run counts as expired
CacheCheck_expiring(p) ==
    /\ pc[p] = "cache_check"
    /\ pc' = [pc EXCEPT ![p] =
                IF arg[p].use_cache /\ ~arg[p].force_refresh /\ cache[cache_path(p)].exists
                   /\ cache[cache_path(p)].mtime = 1
                THEN "cache_read" ELSE "select"]
    /\ UNCHANGED <<cache, arg, rewrite, locals, outcome, strategy, wstatus, unlinked, cache0,
                   fetches, observed>>

\* variant of CacheCheck: use_cache is not tested, the entry is read whenever
\* there is no force_refresh
CacheCheck_always(p) ==
    /\ pc[p] = "cache_check"
    /\ pc' = [pc EXCEPT ![p] =
                IF ~arg[p].force_refresh /\ cache[cache_path(p)].exists
                THEN "cache_read" ELSE "select"]
    /\ UNCHANGED <<cache, arg, rewrite, locals, outcome, strategy, wstatus, unlinked, cache0,
                   fetches, observed>>

\* if use_cache and not force_refresh and cache_path.exists()
CacheCheck(p) ==
    /\ pc[p] = "cache_check"
    /\ pc' = [pc EXCEPT ![p] =
                IF arg[p].use_cache /\ ~arg[p].force_refresh /\ cache[cache_path(p)].exists
                THEN "cache_read" ELSE "select"]
    /\ UNCHANGED <<cache, arg, rewrite, locals, outcome, strategy, wstatus, unlinked, cache0,
                   fetches, observed>>

\* variant of CacheRead: the exception of read_parquet is not caught
CacheRead_raising(p) ==
    /\ pc[p] = "cache_read"
    /\ LET f == cache[cache_path(p)]
       IN  IF f.exists /\ readable(f.bytes)
           THEN /\ outcome' = [outcome EXCEPT ![p] = Return(read_parquet(f.bytes))]
                /\ strategy' = [strategy EXCEPT ![p] = "hit"]
           ELSE /\ outcome' = [outcome EXCEPT ![p] = Raise("Deserialize")]
                /\ UNCHANGED strategy
    /\ pc' = [pc EXCEPT ![p] = "done"]
    /\ UNCHANGED <<cache, arg, rewrite, locals, wstatus, unlinked, cache0, fetches, observed>>

\* return pd.read_parquet(cache_path); an exception leads to the unlink
CacheRead(p) ==
    /\ pc[p] = "cache_read"
    /\ LET f == cache[cache_path(p)]
       IN  IF f.exists /\ readable(f.bytes)
           THEN /\ outcome' = [outcome EXCEPT ![p] = Return(read_parquet(f.bytes))]
                /\ strategy' = [strategy EXCEPT ![p] = "hit"]
                /\ pc' = [pc EXCEPT ![p] = "done"]
           ELSE /\ pc' = [pc EXCEPT ![p] = "cache_unlink"]
                /\ UNCHANGED <<outcome, strategy>>
    /\ UNCHANGED <<cache, arg, rewrite, locals, wstatus, unlinked, cache0, fetches, observed>>

\* cache_path.unlink(missing_ok=True): the file is removed.  A caller that has
\* it open for writing keeps writing into the unlinked file, which no path
\* names any more
CacheUnlink(p) ==
    /\ pc[p] = "cache_unlink"
    /\ cache' = [cache EXCEPT ![cache_path(p)] = NoFile]
    /\ wstatus' = [q \in Procs |->
                     IF q \in writers(cache_path(p)) THEN "detached" ELSE wstatus[q]]
    /\ unlinked' = [unlinked EXCEPT ![p] = "removed"]
    /\ pc' = [pc EXCEPT ![p] = "select"]
    /\ UNCHANGED <<arg, rewrite, locals, outcome, strategy, cache0, fetches, observed>>

\* cache_path.unlink raises (the file cannot be removed): except Exception: pass
CacheUnlinkFails(p) ==
    /\ pc[p] = "cache_unlink"
    /\ unlinked' = [unlinked EXCEPT ![p] = "failed"]
    /\ pc' = [pc EXCEPT ![p] = "select"]
    /\ UNCHANGED <<cache, arg, rewrite, locals, outcome, strategy, wstatus, cache0,
                   fetches, observed>>

\* tickers = ...; if not tickers: raise ValueError("No symbols found ...")
SelectTickers(p) ==
    /\ pc[p] = "select"
    /\ LET ts == sector_symbols(arg[p].stock_df, arg[p].sector, {})
       IN  /\ tickers' = [tickers EXCEPT ![p] = ts]
           /\ IF ts = <<>>
              THEN /\ outcome' = [outcome EXCEPT ![p] = Raise("NoSymbols")]
                   /\ pc' = [pc EXCEPT ![p] = "done"]
              ELSE /\ pc' = [pc EXCEPT ![p] = "run"]
                   /\ UNCHANGED outcome
    /\ UNCHANGED <<cache, arg, rewrite, sem, task, results, cursor, retrieved, result,
                   strategy, wstatus, unlinked, cache0, fetches, observed>>

\* asyncio.run(_gather()) with no running loop: the semaphore is built (a
\* negative value raises ValueError, which is no RuntimeError) and one task
\* per ticker is created
RunGather(p) ==
    /\ pc[p] = "run"
    /\ strategy' = [strategy EXCEPT ![p] = "concurrent"]
    /\ IF arg[p].max_concurrency < 0
       THEN /\ outcome' = [outcome EXCEPT ![p] = Raise("SemaphoreValue")]
            /\ pc' = [pc EXCEPT ![p] = "done"]
            /\ UNCHANGED <<sem, task, results>>
       ELSE /\ sem' = [sem EXCEPT ![p] = arg[p].max_concurrency]
            /\ task' = [task EXCEPT ![p] = [i \in 1..Len(tickers[p]) |-> "created"]]
            /\ results' = [results EXCEPT ![p] = [i \in 1..Len(tickers[p]) |-> Pending]]
            /\ pc' = [pc EXCEPT ![p] = "gather"]
            /\ UNCHANGED outcome
    /\ UNCHANGED <<cache, arg, rewrite, tickers, cursor, retrieved, result, wstatus, unlinked,
                   cache0, fetches, observed>>

\* asyncio.run raises RuntimeError (a loop is already running): results = []
RunFallback(p) ==
    /\ pc[p] = "run"
    /\ strategy' = [strategy EXCEPT ![p] = "sequential"]
    /\ results' = [results EXCEPT ![p] = <<>>]
    /\ cursor' = [cursor EXCEPT ![p] = 1]
    /\ pc' = [pc EXCEPT ![p] = "loop"]
    /\ UNCHANGED <<cache, arg, rewrite, tickers, sem, task, retrieved, result, outcome,
                   wstatus, unlinked, cache0, fetches, observed>>

\* the oldest task that waits for the semaphore of caller p, 0 when none
\* waits (sem._waiters is in the order of tickers)
oldest_waiter(p) ==
    LET waiting == {j \in DOMAIN task[p] : task[p][j] = "created"}
    IN  IF waiting = {} THEN 0
        ELSE CHOOSE j \in waiting : \A k \in waiting : j <= k

\* variant of Acquire: the task does not wait for the semaphore
Acquire_unguarded(p, i) ==
    /\ pc[p] = "gather"
    /\ i \in DOMAIN task[p]
    /\ \/ /\ task[p][i] = "created"
          /\ \A j \in 1..(i - 1) : task[p][j] # "created"
          /\ sem' = [sem EXCEPT ![p] = sem[p] - 1]
       \/ /\ task[p][i] = "woken"
          /\ UNCHANGED sem
    /\ task' = [task EXCEPT ![p][i] = "running"]
    /\ fetches' = [fetches EXCEPT ![p][tickers[p][i]] = @ + 1]
    /\ UNCHANGED <<cache, pc, arg, rewrite, tickers, results, cursor, retrieved, result,
                   outcome, strategy, wstatus, unlinked, cache0, observed>>

\* _bounded: "async with sem" is entered and get_monthly_analysis starts in
\* a thread.  The tasks take their first step in the order of tickers: while
\* the semaphore is positive acquire() decrements it and returns, after that
\* the tasks wait ("created" stands for both).  A task release() has woken
\* goes on without touching the value; were the value positive then, it
\* would wake the next waiter
Acquire(p, i) ==
    /\ pc[p] = "gather"
    /\ i \in DOMAIN task[p]
    /\ \/ /\ task[p][i] = "created"
          /\ \A j \in 1..(i - 1) : task[p][j] # "created"
          /\ \A j \in DOMAIN task[p] : task[p][j] # "woken"
          /\ sem[p] > 0
          /\ sem' = [sem EXCEPT ![p] = sem[p] - 1]
          /\ task' = [task EXCEPT ![p][i] = "running"]
       \/ /\ task[p][i] = "woken"
          /\ IF sem[p] > 0 /\ oldest_waiter(p) # 0
             THEN /\ sem' = [sem EXCEPT ![p] = sem[p] - 1]
                  /\ task' = [task EXCEPT ![p][i] = "running",
                                          ![p][oldest_waiter(p)] = "woken"]
             ELSE /\ UNCHANGED sem
                  /\ task' = [task EXCEPT ![p][i] = "running"]
    /\ fetches' = [fetches EXCEPT ![p][tickers[p][i]] = @ + 1]
    /\ UNCHANGED <<cache, pc, arg, rewrite, tickers, results, cursor, retrieved, result,
                   outcome, strategy, wstatus, unlinked, cache0, observed>>

\* variant of Complete: the semaphore is not released when the fetch ends
Complete_no_release(p, i, o) ==
    /\ pc[p] = "gather"
    /\ i \in DOMAIN task[p]
    /\ task[p][i] = "running"
    /\ o \in Outcomes(tickers[p][i])
    /\ task' = [task EXCEPT ![p][i] = "done"]
    /\ results' = [results EXCEPT ![p][i] = fetch_result(tickers[p][i], o)]
    /\ UNCHANGED sem
    /\ observed' = [observed EXCEPT ![p][tickers[p][i]] = o]
    /\ UNCHANGED <<cache, pc, arg, rewrite, tickers, cursor, retrieved, result, outcome,
                   strategy, wstatus, unlinked, cache0, fetches>>

\* _fetch returns for task i with outcome o of get_monthly_analysis, and the
\* semaphore is released: release() adds one to the value and, when a task
\* waits, takes it back and wakes the oldest waiter.  The thread's result
\* reaches the loop after every task has taken its first step
Complete(p, i, o) ==
    /\ pc[p] = "gather"
    /\ i \in DOMAIN task[p]
    /\ task[p][i] = "running"
    /\ oldest_waiter(p) # 0 => sem[p] = 0
    /\ o \in Outcomes(tickers[p][i])
    /\ results' = [results EXCEPT ![p][i] = fetch_result(tickers[p][i], o)]
    /\ IF oldest_waiter(p) # 0
       THEN /\ UNCHANGED sem
            /\ task' = [task EXCEPT ![p][i] = "done", ![p][oldest_waiter(p)] = "woken"]
       ELSE /\ sem' = [sem EXCEPT ![p] = sem[p] + 1]
            /\ task' = [task EXCEPT ![p][i] = "done"]
    /\ observed' = [observed EXCEPT ![p][tickers[p][i]] = o]
    /\ UNCHANGED <<cache, pc, arg, rewrite, tickers, cursor, retrieved, result, outcome,
                   strategy, wstatus, unlinked, cache0, fetches>>

\* asyncio.gather returns once every task is done
GatherDone(p) ==
    /\ pc[p] = "gather"
    /\ \A i \in DOMAIN task[p] : task[p][i] = "done"
    /\ pc' = [pc EXCEPT ![p] = "collect"]
    /\ UNCHANGED <<cache, arg, rewrite, locals, outcome, strategy, wstatus, unlinked, cache0,
                   fetches, observed>>

\* variant of LoopFetch: a ticker without data ends the loop (break for
\* continue)
LoopFetch_break(p, o) ==
    /\ pc[p] = "loop"
    /\ cursor[p] <= Len(tickers[p])
    /\ o \in Outcomes(tickers[p][cursor[p]])
    /\ LET t == tickers[p][cursor[p]]
           r == fetch_result(t, o)
       IN  /\ fetches' = [fetches EXCEPT ![p][t] = @ + 1]
           /\ observed' = [observed EXCEPT ![p][t] = o]
           /\ results' = [results EXCEPT ![p] =
                            IF r.st = "some" THEN Append(results[p], r) ELSE results[p]]
           /\ pc' = [pc EXCEPT ![p] =
                       IF cursor[p] = Len(tickers[p]) \/ r.st # "some"
                       THEN "collect" ELSE "loop"]
    /\ cursor' = [cursor EXCEPT ![p] = cursor[p] + 1]
    /\ UNCHANGED <<cache, arg, rewrite, tickers, sem, task, retrieved, result, outcome,
                   strategy, wstatus, unlinked, cache0>>

\* one iteration of the fallback loop: get_monthly_analysis(ticker) has
\* outcome o, and the pair is appended when it has data
LoopFetch(p, o) ==
    /\ pc[p] = "loop"
    /\ cursor[p] <= Len(tickers[p])
    /\ o \in Outcomes(tickers[p][cursor[p]])
    /\ LET t == tickers[p][cursor[p]]
           r == fetch_result(t, o)
       IN  /\ fetches' = [fetches EXCEPT ![p][t] = @ + 1]
           /\ observed' = [observed EXCEPT ![p][t] = o]
           /\ results' = [results EXCEPT ![p] =
                            IF r.st = "some" THEN Append(results[p], r) ELSE results[p]]
    /\ cursor' = [cursor EXCEPT ![p] = cursor[p] + 1]
    /\ pc' = [pc EXCEPT ![p] = IF cursor[p] = Len(tickers[p]) THEN "collect" ELSE "loop"]
    /\ UNCHANGED <<cache, arg, rewrite, tickers, sem, task, retrieved, result, outcome,
                   strategy, wstatus, unlinked, cache0>>

\* variant of Collect: the check for an empty stock_monthly_results is missing
Collect_unchecked(p) ==
    /\ pc[p] = "collect"
    /\ LET got == retrieved_of(results[p])
       IN  /\ retrieved' = [retrieved EXCEPT ![p] = got]
           /\ result' = [result EXCEPT ![p] = sector_monthly(got)]
           /\ IF arg[p].use_cache
              THEN /\ pc' = [pc EXCEPT ![p] = "write"]
                   /\ UNCHANGED outcome
              ELSE /\ pc' = [pc EXCEPT ![p] = "done"]
                   /\ outcome' = [outcome EXCEPT ![p] = Return(sector_monthly(got))]
    /\ results' = [results EXCEPT ![p] = <<>>]
    /\ task' = [task EXCEPT ![p] = <<>>]
    /\ sem' = [sem EXCEPT ![p] = 0]
    /\ cursor' = [cursor EXCEPT ![p] = 0]
    /\ UNCHANGED <<cache, arg, rewrite, tickers, strategy, wstatus, unlinked, cache0, fetches, observed>>

\* the loop over results, the raise when nothing was retrieved, and the
\* aggregation; without use_cache the result is returned at once
Collect(p) ==
    /\ pc[p] = "collect"
    /\ LET got == retrieved_of(results[p])
       IN  /\ retrieved' = [retrieved EXCEPT ![p] = got]
           /\ IF got = <<>>
              THEN /\ outcome' = [outcome EXCEPT ![p] = Raise("UnableToBuild")]
                   /\ pc' = [pc EXCEPT ![p] = "done"]
                   /\ UNCHANGED result
              ELSE /\ result' = [result EXCEPT ![p] = sector_monthly(got)]
                   /\ IF arg[p].use_cache
                      THEN /\ pc' = [pc EXCEPT ![p] = "write"]
                           /\ UNCHANGED outcome
                      ELSE /\ pc' = [pc EXCEPT ![p] = "done"]
                           /\ outcome' = [outcome EXCEPT ![p] = Return(sector_monthly(got))]
    /\ results' = [results EXCEPT ![p] = <<>>]
    /\ task' = [task EXCEPT ![p] = <<>>]
    /\ sem' = [sem EXCEPT ![p] = 0]
    /\ cursor' = [cursor EXCEPT ![p] = 0]
    /\ UNCHANGED <<cache, arg, rewrite, tickers, strategy, wstatus, unlinked, cache0, fetches, observed>>

\* result.to_parquet(cache_path, engine="pyarrow") opens the file at the
\* path for writing: a file that is there is truncated, else one is created
WriteOpen(p) ==
    /\ pc[p] = "write"
    /\ cache' = [cache EXCEPT ![cache_path(p)] = File(<<>>, 1)]
    /\ wstatus' = [wstatus EXCEPT ![p] = "open"]
    /\ pc' = [pc EXCEPT ![p] = "writing"]
    /\ UNCHANGED <<arg, rewrite, locals, outcome, strategy, unlinked, cache0, fetches, observed>>

\* the file caller p has open after p wrote blocks behind position offset.
\* Every caller writes at the offset of its own handle; the blocks go to the
\* file that was opened, and once that file is unlinked the path is left as
\* it is, with no file or with the file another call has created there since
written(p, offset, blocks) ==
    IF wstatus[p] = "detached" THEN cache
    ELSE [cache EXCEPT ![cache_path(p)] = File(write_at(@.bytes, offset, blocks), 1)]

\* to_parquet writes the rows from the start of the file
WriteData(p) ==
    /\ pc[p] = "writing"
    /\ LET own == to_parquet_bytes(result[p])
       IN  cache' = written(p, 0, SubSeq(own, 1, Len(own) - 1))
    /\ pc' = [pc EXCEPT ![p] = "flushing"]
    /\ UNCHANGED <<arg, rewrite, locals, outcome, strategy, wstatus, unlinked, cache0,
                   fetches, observed>>

\* variant of WriteRefused: the exception of to_parquet is not caught
WriteRefused_raising(p) ==
    /\ pc[p] = "write"
    /\ wstatus' = [wstatus EXCEPT ![p] = "failed"]
    /\ outcome' = [outcome EXCEPT ![p] = Raise("Persist")]
    /\ pc' = [pc EXCEPT ![p] = "done"]
    /\ UNCHANGED <<cache, arg, rewrite, locals, strategy, unlinked, cache0, fetches, observed>>

\* result.to_parquet raises before the file is touched (it cannot be
\* opened): except Exception: pass; return result
WriteRefused(p) ==
    /\ pc[p] = "write"
    /\ wstatus' = [wstatus EXCEPT ![p] = "failed"]
    /\ outcome' = [outcome EXCEPT ![p] = Return(result[p])]
    /\ pc' = [pc EXCEPT ![p] = "done"]
    /\ UNCHANGED <<cache, arg, rewrite, locals, strategy, unlinked, cache0, fetches, observed>>

\* variant of WriteClose: the result goes to another sector's file and the
\* sector's own entry stays as it was
WriteClose_elsewhere(p) ==
    /\ pc[p] = "flushing"
    /\ cache' = [cache EXCEPT ![cache_path(p)] = entry0(p),
                              ![get_cache_path_for_sector(OilGas)] =
                                  File(to_parquet_bytes(result[p]), 1)]
    /\ wstatus' = [wstatus EXCEPT ![p] = "ok"]
    /\ outcome' = [outcome EXCEPT ![p] = Return(result[p])]
    /\ pc' = [pc EXCEPT ![p] = "done"]
    /\ UNCHANGED <<arg, rewrite, locals, strategy, unlinked, cache0, fetches, observed>>

\* to_parquet writes the footer behind its rows and closes the file;
\* return result
WriteClose(p) ==
    /\ pc[p] = "flushing"
    /\ LET own == to_parquet_bytes(result[p])
       IN  cache' = written(p, Len(own) - 1, <<own[Len(own)]>>)
    /\ wstatus' = [wstatus EXCEPT ![p] = "ok"]
    /\ outcome' = [outcome EXCEPT ![p] = Return(result[p])]
    /\ pc' = [pc EXCEPT ![p] = "done"]
    /\ UNCHANGED <<arg, rewrite, locals, strategy, unlinked, cache0, fetches, observed>>

\* result.to_parquet raises while writing (the disk is full): the file stays
\* as far as it was written (pandas opens the file of a path itself and hands
\* pyarrow the handle, and nothing removes the file); except Exception: pass;
\* return result
WriteAborted(p) ==
    /\ pc[p] \in {"writing", "flushing"}
    /\ wstatus' = [wstatus EXCEPT ![p] = "failed"]
    /\ outcome' = [outcome EXCEPT ![p] = Return(result[p])]
    /\ pc' = [pc EXCEPT ![p] = "done"]
    /\ UNCHANGED <<cache, arg, rewrite, locals, strategy, unlinked, cache0, fetches, observed>>

\* the frame of a call that has ended is gone
Pop(p) ==
    /\ pc[p] = "done"
    /\ pc' = [pc EXCEPT ![p] = "idle"]
    /\ arg' = [arg EXCEPT ![p] = NoArg]
    /\ tickers' = [tickers EXCEPT ![p] = <<>>]
    /\ retrieved' = [retrieved EXCEPT ![p] = <<>>]
    /\ result' = [result EXCEPT ![p] = EmptyFrame]
    /\ outcome' = [outcome EXCEPT ![p] = NoOutcome]
    /\ strategy' = [strategy EXCEPT ![p] = "none"]
    /\ wstatus' = [wstatus EXCEPT ![p] = "none"]
    /\ unlinked' = [unlinked EXCEPT ![p] = "none"]
    /\ cache0' = [cache0 EXCEPT ![p] = cache]
    /\ fetches' = [fetches EXCEPT ![p] = [t \in Symbols |-> 0]]
    /\ observed' = [observed EXCEPT ![p] = [t \in Symbols |-> NotFetched]]
    /\ UNCHANGED <<cache, sem, task, results, cursor>>

\* the caller has the return value or the exception
Finish(p) == Pop(p) /\ UNCHANGED rewrite

\* ------------------------------------------------------------ specification

Step(p) ==
    \/ \E sector \in SectorArgs, use_cache \in BOOLEAN, force_refresh \in BOOLEAN,
          max_concurrency \in ConcurrencyArgs :
          Call(p, sector, StockDf, use_cache, force_refresh, max_concurrency)
    \/ CacheCheck(p)
    \/ CacheRead(p)
    \/ CacheUnlink(p)
    \/ CacheUnlinkFails(p)
    \/ SelectTickers(p)
    \/ RunGather(p)
    \/ RunFallback(p)
    \/ \E i \in 1..Cardinality(Symbols) : Acquire(p, i)
    \/ \E i \in 1..Cardinality(Symbols), o \in UNION {Outcomes(t) : t \in Symbols} :
          Complete(p, i, o)
    \/ GatherDone(p)
    \/ \E o \in UNION {Outcomes(t) : t \in Symbols} : LoopFetch(p, o)
    \/ Collect(p)
    \/ WriteOpen(p)
    \/ WriteData(p)
    \/ WriteRefused(p)
    \/ WriteClose(p)
    \/ WriteAborted(p)
    \/ Finish(p)

\* one caller at a time: a single Streamlit session, or the CLI
Next == Step(1)

Spec == Init /\ [][Next]_vars

\* ------------------------------------------------------------ properties

\* caller p asked for a cached read
ReadRequest(p) == pc[p] # "idle" /\ arg[p].use_cache /\ ~arg[p].force_refresh

\* every ticker of the sector has been fetched and has an outcome
AllFetched(p) ==
    /\ tickers[p] # <<>>
    /\ \A i \in 1..Len(tickers[p]) : observed[p][tickers[p][i]] # NotFetched

\* C1: a read request (use_cache, no force_refresh) whose entry exists and
\* deserializes returns exactly the stored entry, whatever its age, fetches
\* no ticker, and leaves the cache as it was.
C1_CacheHit ==
    \A p \in Procs :
        (ReadRequest(p) /\ entry0(p).exists /\ readable(entry0(p).bytes))
        => /\ \A t \in Symbols : fetches[p][t] = 0 /\ observed[p][t] = NotFetched
           /\ cache = cache0[p]
           /\ pc[p] \in {"cache_check", "cache_read", "done"}
           /\ pc[p] = "done" =>
                /\ outcome[p] = Return(read_parquet(entry0(p).bytes))
                /\ to_parquet_bytes(outcome[p].value) = entry0(p).bytes
                /\ strategy[p] = "hit"

\* a hit on an entry written by an earlier run
C1_Witness ==
    /\ pc[1] = "done" /\ ReadRequest(1)
    /\ entry0(1) = File(to_parquet_bytes(StaleMatrix), 0)
    /\ outcome[1] = Return(StaleMatrix)

\* C2 (as claimed): every call with force_refresh skips the cache read and,
\* when the aggregation succeeds and the persist does not fail, leaves the
\* sector's entry overwritten with the new result, whatever use_cache is.
C2_ForceRefreshRewrites ==
    \A p \in Procs :
        (pc[p] = "done" /\ arg[p].force_refresh /\ outcome[p].kind = "return"
         /\ wstatus[p] # "failed")
        => /\ strategy[p] # "hit"
           /\ cache[cache_path(p)] = File(to_parquet_bytes(outcome[p].value), 1)

\* C3: a read request whose entry exists but does not deserialize attempts
\* the unlink, has the entry gone when the unlink succeeds, goes on to the
\* recomputation, and raises nothing but the errors of the recomputation.
C3_CorruptionRecovery ==
    \A p \in Procs :
        (ReadRequest(p) /\ entry0(p).exists /\ ~readable(entry0(p).bytes))
        => /\ strategy[p] # "hit"
           /\ pc[p] \notin {"cache_check", "cache_read", "cache_unlink"}
                => unlinked[p] \in {"removed", "failed"}
           /\ (unlinked[p] = "removed" /\ wstatus[p] = "none")
                => ~cache[cache_path(p)].exists
           /\ pc[p] = "done" =>
                /\ outcome[p].kind = "raise"
                     => outcome[p].error \in {"NoSymbols", "UnableToBuild", "SemaphoreValue"}
                /\ outcome[p].error # "SemaphoreValue" =>
                     \A i \in 1..Len(tickers[p]) : fetches[p][tickers[p][i]] = 1
                /\ outcome[p].kind = "return" =>
                     /\ AllFetched(p)
                     /\ outcome[p].value = sector_monthly(retrieved[p])

\* an unreadable entry was removed and the call returned a fresh aggregate
C3_Witness ==
    /\ pc[1] = "done" /\ ReadRequest(1)
    /\ entry0(1).exists /\ ~readable(entry0(1).bytes)
    /\ unlinked[1] = "removed"
    /\ outcome[1].kind = "return" /\ AllFetched(1)

\* the call's aggregation succeeded: it has a result to persist or return
Aggregated(p) == pc[p] \in {"write", "writing", "flushing", "done"} /\ retrieved[p] # <<>>

\* C4: when the aggregation succeeded with use_cache and the persist
\* succeeded, the sector's entry is the returned matrix, whatever entry was
\* there, and the entry under every other cache path is as it was.
C4_WritePath ==
    \A p \in Procs :
        (pc[p] = "done" /\ wstatus[p] = "ok")
        => /\ arg[p].use_cache
           /\ outcome[p].kind = "return"
           /\ cache[cache_path(p)].exists /\ readable(cache[cache_path(p)].bytes)
           /\ read_parquet(cache[cache_path(p)].bytes) = outcome[p].value
           /\ cache[cache_path(p)].mtime = 1
           /\ \A q \in Paths \ {cache_path(p)} : cache[q] = cache0[p][q]

\* a readable entry with other content was replaced, next to another
\* sector's entry
C4_Witness ==
    /\ pc[1] = "done" /\ wstatus[1] = "ok"
    /\ entry0(1).exists /\ readable(entry0(1).bytes)
    /\ read_parquet(entry0(1).bytes) # outcome[1].value
    /\ cache[get_cache_path_for_sector(OilGas)].exists

\* C5: when the persist fails, the call still returns the matrix it computed
\* and raises nothing.
C5_WriteFailureNonFatal ==
    \A p \in Procs :
        (pc[p] = "done" /\ wstatus[p] = "failed")
        => /\ outcome[p] = Return(result[p])
           /\ result[p] = sector_monthly(retrieved[p])
           /\ ~empty(outcome[p].value)

\* a persist failed half way and the call returned
C5_Witness ==
    /\ pc[1] = "done" /\ wstatus[1] = "failed"
    /\ cache[cache_path(1)].exists /\ cache[cache_path(1)].mtime = 1
    /\ cache[cache_path(1)].bytes # <<>>
    /\ ~readable(cache[cache_path(1)].bytes)
    /\ outcome[1].kind = "return"

\* the outcome of ticker t in the call of p carries data
HasData(p, t) == observed[p][t].kind = "return" /\ ~empty(observed[p][t].frame)

\* C6: when every ticker of the sector raised or came back empty, the call
\* raises the "unable to build" error and no cache file was written by it,
\* with or without force_refresh.
C6_TotalFailure ==
    \A p \in Procs :
        (pc[p] = "done" /\ AllFetched(p)
         /\ \A i \in 1..Len(tickers[p]) : ~HasData(p, tickers[p][i]))
        => /\ outcome[p] = Raise("UnableToBuild")
           /\ wstatus[p] = "none"
           /\ \A q \in Paths : cache[q].exists => cache[q] = cache0[p][q]

\* a forced refresh with caching failed in every ticker, over an existing entry
C6_Witness ==
    /\ pc[1] = "done" /\ AllFetched(1)
    /\ arg[1].force_refresh /\ arg[1].use_cache
    /\ \A i \in 1..Len(tickers[1]) : ~HasData(1, tickers[1][i])
    /\ observed[1]["A"] = Raises /\ observed[1]["B"] = Returns(EmptyFrame)
    /\ entry0(1).exists
    /\ outcome[1].kind = "raise"

\* the tickers of the call that came back with data
Successes(p) == {t \in Symbols : observed[p][t] # NotFetched /\ HasData(p, t)}

\* the cell of frame df at year y and month m when the frame has the row
CellAt(df, y, m) == df.values[IndexOf(df.index, y)][IndexOf(df.columns, m)]

\* the successful tickers with a value at (y, m)
Contributors(p, y, m) ==
    {t \in Successes(p) :
        /\ IndexOf(observed[p][t].frame.index, y) # 0
        /\ ~CellAt(observed[p][t].frame, y, m).nan}

RECURSIVE SumAt(_, _, _, _)
SumAt(p, T, y, m) ==
    IF T = {} THEN 0
    ELSE LET t == CHOOSE x \in T : TRUE
         IN  CellAt(observed[p][t].frame, y, m).num + SumAt(p, T \ {t}, y, m)

YearsOf(p) ==
    UNION {{observed[p][t].frame.index[r] : r \in 1..Len(observed[p][t].frame.index)}
           : t \in Successes(p)}

\* C7: when some but not all tickers fail, the call does not abort, and each
\* cell of the aggregate is the arithmetic mean over exactly the successful
\* tickers with a value there; it is missing only when there is none.
C7_PartialFailure ==
    \A p \in Procs :
        (pc[p] \in {"write", "writing", "flushing", "done"} /\ AllFetched(p) /\ Successes(p) # {})
        => /\ result[p].columns = MONTHS
           /\ {result[p].index[r] : r \in 1..Len(result[p].index)} = YearsOf(p)
           /\ Len(result[p].index) = Cardinality(YearsOf(p))
           /\ \A y \in YearsOf(p) : \A c \in 1..Len(MONTHS) :
                LET cell == CellAt(result[p], y, MONTHS[c])
                    from == Contributors(p, y, MONTHS[c])
                IN  IF from = {} THEN cell.nan
                    ELSE /\ ~cell.nan
                         /\ cell.den > 0
                         /\ cell.num * Cardinality(from)
                              = cell.den * SumAt(p, from, y, MONTHS[c])
           /\ pc[p] = "done" => outcome[p] = Return(result[p])

\* one ticker of three failed, one cell has a single contributor and one none
C7_Witness ==
    /\ pc[1] = "done" /\ AllFetched(1)
    /\ Successes(1) = {"A", "C"}
    /\ Contributors(1, 2021, "Jan") = {}
    /\ Contributors(1, 2021, "Feb") = {"C"}
    /\ Contributors(1, 2020, "Jan") = {"A", "C"}
    /\ outcome[1].kind = "return"

\* the example of the specification: A has Jan = 0.02 and Feb = -0.01 for
\* 2020, B has Jan = 0.04 for 2020 and no Feb, the fetch of C fails
Example(p) ==
    /\ pc[p] = "done" /\ arg[p].sector = Media /\ tickers[p] = <<"A", "B", "C">>
    /\ observed[p]["A"] = Returns(MatrixA)
    /\ observed[p]["B"] = Returns(MatrixB)
    /\ observed[p]["C"] = Raises

\* C8 (as claimed): in the example the row of 2020 has Jan = 0.03 and
\* Feb = 0.01.
C8_ExampleAsClaimed ==
    \A p \in Procs :
        Example(p)
        => /\ outcome[p].kind = "return"
           /\ CellAt(outcome[p].value, 2020, "Jan") = Val(3)
           /\ CellAt(outcome[p].value, 2020, "Feb") = Val(1)

\* C8 (amended): in the example the row of 2020 has Jan = 0.03 and
\* Feb = -0.01, the value of A, the only ticker with a Feb value.
C8_Example ==
    \A p \in Procs :
        Example(p)
        => /\ outcome[p].kind = "return"
           /\ outcome[p].value.index = <<2020>>
           /\ CellAt(outcome[p].value, 2020, "Jan") = Val(3)
           /\ CellAt(outcome[p].value, 2020, "Feb") = Val(-1)

\* the example was run through the concurrent path
C8_Witness == Example(1) /\ strategy[1] = "concurrent" /\ outcome[1].kind = "return"

\* the tasks of caller p that release() has given a slot and that have not
\* started their fetch yet
handed_over(p) == Cardinality({i \in DOMAIN task[p] : task[p][i] = "woken"})

\* C9: while the tasks of _gather run, the fetches in flight never exceed
\* max_concurrency, and the semaphore accounts for each of them: its value,
\* the fetches in flight and the slots handed to woken tasks add up to
\* max_concurrency.
C9_ConcurrencyLimit ==
    \A p \in Procs :
        pc[p] = "gather"
        => /\ in_flight(p) <= arg[p].max_concurrency
           /\ sem[p] >= 0
           /\ sem[p] + in_flight(p) + handed_over(p) = arg[p].max_concurrency

\* the limit binds: max_concurrency fetches in flight and a task waiting
C9_Witness ==
    /\ pc[1] = "gather" /\ arg[1].max_concurrency = 2
    /\ in_flight(1) = 2
    /\ \E i \in DOMAIN task[1] : task[1][i] = "created"

\* the pairs (ticker, matrix) of the tickers with data, in membership order
RECURSIVE ExpectedRetrieved(_, _)
ExpectedRetrieved(p, ts) ==
    IF ts = <<>> THEN <<>>
    ELSE IF HasData(p, Head(ts))
         THEN <<Some(Head(ts), observed[p][Head(ts)].frame)>>
              \o ExpectedRetrieved(p, Tail(ts))
         ELSE ExpectedRetrieved(p, Tail(ts))

\* the fetching of the call is over and it fetched something
FetchingOver(p) ==
    /\ strategy[p] \in {"concurrent", "sequential"}
    /\ pc[p] \in {"collect", "write", "writing", "flushing", "done"}
    /\ \E t \in Symbols : fetches[p][t] > 0

\* the call took one of the two paths and has left it, by an exception or
\* with the results of its fetches
PathLeft(p) ==
    /\ strategy[p] \in {"concurrent", "sequential"}
    /\ pc[p] \in {"collect", "write", "writing", "flushing", "done"}

\* what both paths are to yield: every ticker has its outcome, and the
\* call's retrieved matrices, its aggregate or failure, and the cache entry
\* it leaves are one function of the per-ticker outcomes
YieldsAggregate(p) ==
    LET want == ExpectedRetrieved(p, tickers[p])
    IN  /\ AllFetched(p)
        /\ pc[p] # "collect" => retrieved[p] = want
        /\ (pc[p] # "collect" /\ want # <<>>) => result[p] = sector_monthly(want)
        /\ pc[p] = "done" =>
             /\ outcome[p] = IF want = <<>> THEN Raise("UnableToBuild")
                             ELSE Return(sector_monthly(want))
             /\ wstatus[p] = "ok" =>
                  cache[cache_path(p)] = File(to_parquet_bytes(sector_monthly(want)), 1)
             /\ ~arg[p].use_cache => cache = cache0[p]

\* C10 (as claimed): whichever of the two paths a call took, for every
\* membership and every max_concurrency, once the path is left every ticker
\* has its outcome and the aggregate or failure and the cache entry are the
\* same function of the per-ticker outcomes.
C10_StrategyEquivalenceAsClaimed ==
    \A p \in Procs : PathLeft(p) => YieldsAggregate(p)

\* C10 (amended): the sequential path, and the concurrent path when
\* max_concurrency is at least 1, yield the same function of the per-ticker
\* outcomes: retrieved matrices, aggregate or failure, and cache entry.
\* With a negative max_concurrency the concurrent path ends with the
\* ValueError of asyncio.Semaphore before any fetch, and with 0 it starts no
\* fetch and is never left.
C10_StrategyEquivalence ==
    \A p \in Procs :
        /\ (PathLeft(p) /\ (strategy[p] = "sequential" \/ arg[p].max_concurrency >= 1))
           => YieldsAggregate(p)
        /\ (strategy[p] = "concurrent" /\ arg[p].max_concurrency < 0)
           => /\ pc[p] = "done"
              /\ outcome[p] = Raise("SemaphoreValue")
              /\ \A t \in Symbols : fetches[p][t] = 0
        /\ (strategy[p] = "concurrent" /\ arg[p].max_concurrency = 0)
           => /\ pc[p] = "gather"
              /\ \A t \in Symbols : fetches[p][t] = 0

\* with max_concurrency -1 the fallback loop finished a sector with a failing
\* ticker between two tickers with data, and persisted the aggregate
C10_Witness ==
    /\ pc[1] = "done" /\ strategy[1] = "sequential" /\ AllFetched(1)
    /\ arg[1].max_concurrency = -1
    /\ HasData(1, "A") /\ ~HasData(1, "B") /\ HasData(1, "C")
    /\ wstatus[1] = "ok"

\* ------------------------------------------------------------ orderings of the membership table

\* the orders in which the rows of the sector's three tickers can stand
Orderings ==
    {o \in [1..3 -> {"A", "B", "C"}] : \A i, j \in 1..3 : o[i] = o[j] => i = j}

\* the membership table with the sector's tickers in order o, among rows of
\* another sector, a row without symbol and a repeated row
OrderedDf(o) ==
    << [symbol |-> o[1], sector |-> Media],
       [symbol |-> "D",  sector |-> OilGas],
       [symbol |-> o[2], sector |-> Media],
       [symbol |-> NA,   sector |-> Media],
       [symbol |-> o[1], sector |-> Media],
       [symbol |-> o[3], sector |-> Media] >>

\* get_sector_monthly_analysis(sector, stock_df, use_cache=False) on every
\* ordering of the table
OrderStep(p) ==
    \/ \E o \in Orderings :
          Call(p, Media, OrderedDf(o), FALSE, FALSE, DefaultMaxConcurrency)
    \/ CacheCheck(p)
    \/ SelectTickers(p)
    \/ RunGather(p)
    \/ RunFallback(p)
    \/ \E i \in 1..Cardinality(Symbols) : Acquire(p, i)
    \/ \E i \in 1..Cardinality(Symbols), o \in UNION {Outcomes(t) : t \in Symbols} :
          Complete(p, i, o)
    \/ GatherDone(p)
    \/ \E o \in UNION {Outcomes(t) : t \in Symbols} : LoopFetch(p, o)
    \/ Collect(p)
    \/ Finish(p)

OrderNext == OrderStep(1)

SpecOrder == Init /\ [][OrderNext]_vars

\* the tickers in one fixed order, whatever the order of the table
Alphabetical == <<"A", "B", "C", "D">>

\* the matrix df with every cell replaced by the float64 nearest to the exact
\* value of the cell
Nearest(df) ==
    [index   |-> df.index,
     columns |-> df.columns,
     values  |-> [r \in 1..Len(df.values) |->
                    [c \in 1..Len(df.values[r]) |->
                        [df.values[r][c] EXCEPT !.ulp = 0]]]]

\* C11 (as claimed): the matrix a call returns is the same for every
\* ordering of the tickers in the membership table and for every completion
\* order of the fetches: it is the aggregate of the matrices of the tickers
\* that had data taken in one fixed order, and its columns are Jan..Dec.
C11_OrderIndependenceAsClaimed ==
    \A p \in Procs :
        (pc[p] = "done" /\ outcome[p].kind = "return" /\ strategy[p] # "hit")
        => /\ outcome[p].value.columns = MONTHS
           /\ outcome[p].value = sector_monthly(ExpectedRetrieved(p, Alphabetical))

\* C11 (amended): the matrix a call returns has the columns Jan..Dec in
\* calendar order; it is the aggregate of the matrices of the tickers that
\* had data taken in the order of the membership table, whatever the order in
\* which the concurrent fetches completed; and for every ordering of the
\* membership table it has the same years, the same missing cells and in
\* each cell the mean of the same values, so that two orderings differ by
\* the rounding of the float64 summation at most.
C11_OrderIndependence ==
    \A p \in Procs :
        (pc[p] = "done" /\ outcome[p].kind = "return" /\ strategy[p] # "hit")
        => /\ outcome[p].value.columns = MONTHS
           /\ outcome[p].value = sector_monthly(ExpectedRetrieved(p, tickers[p]))
           /\ Nearest(outcome[p].value)
                = Nearest(sector_monthly(ExpectedRetrieved(p, Alphabetical)))

\* a concurrent call on a table listing the tickers as C, B, A returned the
\* aggregate of three matrices, and its cell of 2020 Jan is not the float64
\* that the table listing them as A, B, C gives
C11_Witness ==
    /\ pc[1] = "done" /\ strategy[1] = "concurrent"
    /\ tickers[1] = <<"C", "B", "A">>
    /\ \A t \in {"A", "B", "C"} : HasData(1, t)
    /\ outcome[1].kind = "return"
    /\ CellAt(outcome[1].value, 2020, "Jan")
         # CellAt(sector_monthly(ExpectedRetrieved(1, Alphabetical)), 2020, "Jan")
    /\ Nearest(outcome[1].value)
         = Nearest(sector_monthly(ExpectedRetrieved(1, Alphabetical)))

\* ------------------------------------------------------------ two consecutive calls

\* the underlying data is unchanged: a ticker the first call fetched does
\* in the second call what it did in the first
Unchanged(t, o) == observed[1][t] = NotFetched \/ o = observed[1][t]

\* the first call, with caching enabled and no force_refresh
FirstCall ==
    \/ \E sector \in SectorArgs :
          Call(1, sector, StockDf, TRUE, FALSE, DefaultMaxConcurrency)
    \/ CacheCheck(1)
    \/ CacheRead(1)
    \/ CacheUnlink(1)
    \/ CacheUnlinkFails(1)
    \/ SelectTickers(1)
    \/ RunGather(1)
    \/ RunFallback(1)
    \/ \E i \in 1..Cardinality(Symbols) : Acquire(1, i)
    \/ \E i \in 1..Cardinality(Symbols), o \in UNION {Outcomes(t) : t \in Symbols} :
          Complete(1, i, o)
    \/ GatherDone(1)
    \/ \E o \in UNION {Outcomes(t) : t \in Symbols} : LoopFetch(1, o)
    \/ Collect(1)
    \/ WriteOpen(1)
    \/ WriteData(1)
    \/ WriteRefused(1)
    \/ WriteClose(1)
    \/ WriteAborted(1)

FirstEnded == pc[1] = "done"

\* the second call, made with the same arguments once the first has ended
SecondCall ==
    \/ FirstEnded /\ Call(2, arg[1].sector, arg[1].stock_df, arg[1].use_cache,
                          arg[1].force_refresh, arg[1].max_concurrency)
    \/ FirstEnded /\ CacheCheck(2)
    \/ FirstEnded /\ CacheRead(2)
    \/ FirstEnded /\ CacheUnlink(2)
    \/ FirstEnded /\ CacheUnlinkFails(2)
    \/ FirstEnded /\ SelectTickers(2)
    \/ FirstEnded /\ RunGather(2)
    \/ FirstEnded /\ RunFallback(2)
    \/ \E i \in 1..Cardinality(Symbols) : FirstEnded /\ Acquire(2, i)
    \/ \E i \in 1..Cardinality(Symbols), o \in UNION {Outcomes(t) : t \in Symbols} :
          /\ FirstEnded
          /\ i \in DOMAIN tickers[2]
          /\ Unchanged(tickers[2][i], o)
          /\ Complete(2, i, o)
    \/ FirstEnded /\ GatherDone(2)
    \/ \E o \in UNION {Outcomes(t) : t \in Symbols} :
          /\ FirstEnded
          /\ cursor[2] \in DOMAIN tickers[2]
          /\ Unchanged(tickers[2][cursor[2]], o)
          /\ LoopFetch(2, o)
    \/ FirstEnded /\ Collect(2)
    \/ FirstEnded /\ WriteOpen(2)
    \/ FirstEnded /\ WriteData(2)
    \/ FirstEnded /\ WriteRefused(2)
    \/ FirstEnded /\ WriteClose(2)
    \/ FirstEnded /\ WriteAborted(2)

TwiceNext == FirstCall \/ SecondCall

\* the cache directory before the first call: empty, or holding the entries
\* of an earlier run, whole or cut short by a failed write
InitTwice ==
    /\ cache \in {[q \in Paths |-> NoFile],
                  [q \in Paths |-> File(to_parquet_bytes(StaleMatrix), 0)],
                  [q \in Paths |-> File(Garbage, 0)]}
    /\ NoCalls

SpecTwice == InitTwice /\ [][TwiceNext]_vars

\* both calls have ended and the first returned a matrix
BothReturned == pc[1] = "done" /\ pc[2] = "done" /\ outcome[1].kind = "return"

\* the call was served from the cache: no fetch, no write, cache untouched
ServedFromCache(p) ==
    /\ strategy[p] = "hit"
    /\ \A t \in Symbols : fetches[p][t] = 0
    /\ wstatus[p] = "none"
    /\ cache = cache0[p]

\* C12 as claimed: of two consecutive calls for the same sector with caching
\* enabled, no force_refresh and unchanged data, the second returns what the
\* first returned and is served from the cache.
C12_IdempotenceAsClaimed ==
    BothReturned => (outcome[2] = outcome[1] /\ ServedFromCache(2))

\* C12: of two consecutive calls for the same sector with caching enabled,
\* no force_refresh and unchanged data, the second returns what the first
\* returned; it is served from the cache when the first call was served from
\* the cache or wrote its entry, and it fetches again when the cache write of
\* the first call failed.
C12_Idempotence ==
    BothReturned
    => /\ outcome[2] = outcome[1]
       /\ wstatus[1] # "failed" => ServedFromCache(2)
       /\ wstatus[1] = "failed" => (strategy[2] # "hit" /\ AllFetched(2))

\* the first call aggregated and wrote its entry, the second was a hit
C12_Witness ==
    /\ BothReturned
    /\ strategy[1] = "concurrent" /\ wstatus[1] = "ok"
    /\ \E t \in Symbols : ~HasData(1, t) /\ observed[1][t] # NotFetched
    /\ strategy[2] = "hit" /\ outcome[2] = outcome[1]

\* ------------------------------------------------------------ empty sector

\* the membership table has no ticker for the sector of the call
NoMembers(p) == sector_symbols(arg[p].stock_df, arg[p].sector, {}) = <<>>

\* C13: a call for a sector without ticker in the membership table ends with
\* the "no symbols" error and has fetched nothing, whatever the cache held
\* when it started.
C13_SectorEmpty ==
    \A p \in Procs :
        (pc[p] = "done" /\ NoMembers(p))
        => /\ outcome[p] = Raise("NoSymbols")
           /\ \A t \in Symbols : fetches[p][t] = 0

\* ------------------------------------------------------------ atomic write

\* C14: every cache file that exists is a whole parquet file at every moment,
\* and a call whose cache write failed leaves the entry it found: the write
\* replaces the entry in one step or not at all.
C14_AtomicWrite ==
    /\ \A q \in Paths : cache[q].exists => readable(cache[q].bytes)
    /\ \A p \in Procs :
          (pc[p] = "done" /\ wstatus[p] = "failed") => cache[cache_path(p)] = entry0(p)

\* ------------------------------------------------------------ no retry

\* C15: within one call get_monthly_analysis is called at most once for each
\* ticker, whether it returned data, came back empty or raised, in the
\* concurrent path and in the fallback loop alike; once the fetching is over
\* each ticker of the sector was fetched exactly once and no other was.
C15_NoRetry ==
    \A p \in Procs :
        /\ \A t \in Symbols : fetches[p][t] <= 1
        /\ \A i, j \in DOMAIN tickers[p] : tickers[p][i] = tickers[p][j] => i = j
        /\ FetchingOver(p) =>
             \A t \in Symbols :
                fetches[p][t] = IF \E i \in DOMAIN tickers[p] : tickers[p][i] = t
                                THEN 1 ELSE 0

\* a call whose first ticker, listed twice in the table, raised and whose
\* second came back empty went on to the third, each fetched once
C15_Witness ==
    /\ pc[1] = "done" /\ strategy[1] = "sequential"
    /\ tickers[1] = <<"A", "B", "C">>
    /\ observed[1]["A"] = Raises
    /\ observed[1]["B"] = Returns(EmptyFrame)
    /\ HasData(1, "C")
    /\ \A t \in {"A", "B", "C"} : fetches[1][t] = 1

\* ------------------------------------------------------------ sector names and cache keys

\* calls with caching enabled for sector names that differ in case, in
\* whitespace and in punctuation, on a table that lists some of them; no
\* cache write fails
NamesStep(p) ==
    \/ \E sector \in NameArgs, force_refresh \in BOOLEAN :
          Call(p, sector, NamesDf, TRUE, force_refresh, DefaultMaxConcurrency)
    \/ CacheCheck(p)
    \/ CacheRead(p)
    \/ SelectTickers(p)
    \/ RunGather(p)
    \/ RunFallback(p)
    \/ \E i \in 1..Cardinality(Symbols) : Acquire(p, i)
    \/ \E i \in 1..Cardinality(Symbols), o \in UNION {Outcomes(t) : t \in Symbols} :
          Complete(p, i, o)
    \/ GatherDone(p)
    \/ \E o \in UNION {Outcomes(t) : t \in Symbols} : LoopFetch(p, o)
    \/ Collect(p)
    \/ WriteOpen(p)
    \/ WriteData(p)
    \/ WriteClose(p)
    \/ Finish(p)

NamesNext == NamesStep(1)

SpecNames == Init /\ [][NamesNext]_vars

UpperCase == ord("A")..ord("Z")

\* the upper-case letters U+00C0..U+00DE of Latin-1 (U+00D7 is a sign); the
\* lower-case letter of each is 32 code points on, as for A-Z
LatinUpperCase == (192..222) \ {215}

\* the name with its letters in lower case
Lowered(s) ==
    [i \in 1..Len(s) |->
        IF s[i] \in UpperCase \cup LatinUpperCase
        THEN s[i] + (ord("a") - ord("A")) ELSE s[i]]

\* the name without the characters of set cs
RECURSIVE Without(_, _)
Without(s, cs) ==
    IF s = <<>> THEN <<>>
    ELSE IF Head(s) \in cs THEN Without(Tail(s), cs)
         ELSE <<Head(s)>> \o Without(Tail(s), cs)

\* the characters of the names that are neither letters, digits nor whitespace
Punctuation == {ord("&"), ord(","), ord("-"), ord("_")}

DiffersInCaseOnly(a, b) == a # b /\ Lowered(a) = Lowered(b)

\* the two names are the same but for case, and one of the places where they
\* differ holds a letter of A-Z or a-z
DiffersInAsciiCase(a, b) ==
    /\ Lowered(a) = Lowered(b)
    /\ \E i \in 1..Len(a) : a[i] # b[i] /\ a[i] \in Letters

DiffersInWhitespaceOnly(a, b) == a # b /\ Without(a, Whitespace) = Without(b, Whitespace)

DiffersInPunctuationOnly(a, b) == a # b /\ Without(a, Punctuation) = Without(b, Punctuation)

\* the two names have the same length and differ only where both have a
\* character outside [A-Za-z0-9_-]
UnsafeSwapped(a, b) ==
    /\ Len(a) = Len(b)
    /\ \A i \in 1..Len(a) : a[i] = b[i] \/ (a[i] \notin SafeChars /\ b[i] \notin SafeChars)

\* the token of a cache path: the file name without ".parquet"
Token(path) == SubSeq(path, 1, Len(path) - 8)

SafeToken(path) ==
    /\ Len(path) >= 8
    /\ SubSeq(path, Len(path) - 7, Len(path)) = ParquetSuffix
    /\ \A i \in 1..Len(Token(path)) : Token(path)[i] \in SafeChars

\* C16 as claimed: the cache path of the sector of a call is the cache path
\* of every name that differs from it only in case, only in whitespace or
\* only in punctuation, and its token has only filesystem-safe characters.
C16_KeyFoldsCaseWhitespacePunctuation ==
    \A p \in Procs :
        pc[p] # "idle"
        => /\ SafeToken(cache_path(p))
           /\ \A n \in NameArgs :
                (\/ DiffersInCaseOnly(arg[p].sector, n)
                 \/ DiffersInWhitespaceOnly(arg[p].sector, n)
                 \/ DiffersInPunctuationOnly(arg[p].sector, n))
                => get_cache_path_for_sector(n) = cache_path(p)

\* C16: the token of the cache path of the sector of a call has only
\* characters of [A-Za-z0-9_-]; "Oil & Gas" gives Oil_Gas.parquet; a name
\* that differs only in surrounding whitespace, or only in which characters
\* outside [A-Za-z0-9_-] stand at the same places (a letter outside A-Z and
\* a-z is such a character, in either case), has the same cache path; a name
\* that differs in the case of a letter of A-Z or a-z has another cache path.
C16_KeyNormalization ==
    \A p \in Procs :
        pc[p] # "idle"
        => /\ SafeToken(cache_path(p))
           /\ arg[p].sector = OilGas =>
                cache_path(p) = str("Oil_Gas.parquet")
           /\ \A n \in NameArgs :
                /\ strip(n) = strip(arg[p].sector)
                     => get_cache_path_for_sector(n) = cache_path(p)
                /\ UnsafeSwapped(strip(n), strip(arg[p].sector))
                     => get_cache_path_for_sector(n) = cache_path(p)
                /\ DiffersInAsciiCase(n, arg[p].sector)
                     => get_cache_path_for_sector(n) # cache_path(p)

\* a call for "Oil / Gas" found the entry a call for "Oil & Gas" wrote; the
\* two names with the accented letter have one cache path, as have " Media "
\* and "Media", and "Media" and "media" have two
C16_Witness ==
    /\ pc[1] = "done" /\ arg[1].sector = OilGasSlash
    /\ strategy[1] = "hit"
    /\ cache[cache_path(1)].mtime = 1
    /\ OilGas # OilGasSlash /\ UnsafeSwapped(OilGas, OilGasSlash)
    /\ cache_path(1) = get_cache_path_for_sector(OilGas)
    /\ CafeLower # CafeUpper /\ UnsafeSwapped(CafeLower, CafeUpper)
    /\ get_cache_path_for_sector(CafeLower) = get_cache_path_for_sector(CafeUpper)
    /\ get_cache_path_for_sector(MediaPadded) = get_cache_path_for_sector(Media)
    /\ DiffersInAsciiCase(Media, MediaLower)
    /\ get_cache_path_for_sector(Media) # get_cache_path_for_sector(MediaLower)

\* ------------------------------------------------------------ completion

\* the steps of a refreshing call around its aggregation: the interpreter
\* runs on, the event loop runs every task that can run, every fetch returns
\* or raises, the write ends one way or another
Advance(p) ==
    \/ CacheCheck(p)
    \/ SelectTickers(p)
    \/ RunGather(p)
    \/ \E i \in 1..Cardinality(Symbols) : Acquire(p, i)
    \/ \E i \in 1..Cardinality(Symbols), o \in UNION {Outcomes(t) : t \in Symbols} :
          Complete(p, i, o)
    \/ GatherDone(p)
    \/ WriteOpen(p)
    \/ WriteData(p)
    \/ WriteRefused(p)
    \/ WriteClose(p)
    \/ WriteAborted(p)

\* calls outside a running event loop, with force_refresh and every
\* max_concurrency of the model
LiveNext ==
    \/ \E use_cache \in BOOLEAN, max_concurrency \in ConcurrencyArgs :
          Call(1, Media, StockDf, use_cache, TRUE, max_concurrency)
    \/ Advance(1)
    \/ Collect(1)
    \/ Finish(1)

\* what Collect does to the position of the call: the loop over results and
\* the aggregation end, with the return, the raise or the cache write next
PastCollect(p) ==
    /\ pc[p] = "collect"
    /\ \E next \in {"done", "write"} : pc' = [pc EXCEPT ![p] = next]

\* a call that can take a step takes one
SpecLive ==
    Init /\ [][LiveNext]_vars /\ WF_vars(Advance(1)) /\ WF_pc(PastCollect(1))

\* the call has ended, having fetched every ticker of the sector once
AwaitedAll(p) ==
    /\ pc[p] = "done"
    /\ AllFetched(p)
    /\ \A i \in DOMAIN tickers[p] : fetches[p][tickers[p][i]] = 1
    /\ outcome[p].kind \in {"return", "raise"}

\* C17 as claimed: for every non-negative max_concurrency, a call that has
\* entered the concurrent aggregation eventually ends, returning or raising,
\* with the fetch of every ticker awaited.
C17_CompletionAsClaimed ==
    \A p \in Procs :
        (pc[p] = "gather" /\ arg[p].max_concurrency >= 0) ~> AwaitedAll(p)

\* C17: for every max_concurrency of at least one, a call that has entered
\* the concurrent aggregation eventually ends, returning or raising, with the
\* fetch of every ticker awaited.
C17_Completion ==
    \A p \in Procs :
        (pc[p] = "gather" /\ arg[p].max_concurrency >= 1) ~> AwaitedAll(p)

\* a concurrent call with max_concurrency 1 has ended with every ticker fetched
C17_Witness ==
    /\ AwaitedAll(1)
    /\ strategy[1] = "concurrent"
    /\ arg[1].max_concurrency = 1

\* ------------------------------------------------------------ interleaved calls

\* two callers ask for the same sector of the membership table with caching
\* enabled and their calls interleave; no file operation fails
RaceStep(p) ==
    \/ \E force_refresh \in BOOLEAN :
          Call(p, Media, StockDf, TRUE, force_refresh, DefaultMaxConcurrency)
    \/ CacheCheck(p)
    \/ CacheRead(p)
    \/ CacheUnlink(p)
    \/ SelectTickers(p)
    \/ RunGather(p)
    \/ \E i \in 1..Cardinality(Symbols) : Acquire(p, i)
    \/ \E i \in 1..Cardinality(Symbols), o \in UNION {Outcomes(t) : t \in Symbols} :
          Complete(p, i, o)
    \/ GatherDone(p)
    \/ Collect(p)
    \/ WriteOpen(p)
    \/ WriteData(p)
    \/ WriteClose(p)

RaceNext == \E p \in Procs : RaceStep(p)

SpecRace == Init /\ [][RaceNext]_vars

\* C18: when calls for the same sector interleave, no read finds the entry
\* missing or unreadable after it was seen to exist, and once both calls have
\* ended and one of them reported its write as done, the entry is there and
\* is the whole result of a call that wrote it.
C18_WholeEntryUnderConcurrency ==
    /\ \A p \in Procs : pc[p] # "cache_unlink"
    /\ ((\A p \in Procs : pc[p] = "done") /\ (\E p \in Procs : wstatus[p] = "ok"))
       => \E p \in Procs :
             /\ wstatus[p] = "ok"
             /\ cache[cache_path(p)] = File(to_parquet_bytes(outcome[p].value), 1)

\* ------------------------------------------------------------ cache isolation

\* the pairs (ticker, matrix) of the tickers of ts that are in K
RECURSIVE Chosen(_, _)
Chosen(ts, K) ==
    IF ts = <<>> THEN <<>>
    ELSE (IF Head(ts) \in K
          THEN <<Some(Head(ts), SelectMonths(History(Head(ts))))>>
          ELSE <<>>) \o Chosen(Tail(ts), K)

\* the matrices that can be computed from the tickers the table lists for
\* the sector of the call
OwnAggregates(p) ==
    LET ts == sector_symbols(arg[p].stock_df, arg[p].sector, {})
    IN  {sector_monthly(Chosen(ts, K)) :
            K \in (SUBSET {ts[i] : i \in DOMAIN ts}) \ {{}}}

\* C19: a call for a sector of the membership table that is served from an
\* entry written in this run returns a matrix computed from the sector's own
\* tickers, after any sequence of calls for the sectors of the table.
C19_CacheIsolation ==
    \A p \in Procs :
        (/\ pc[p] = "done" /\ strategy[p] = "hit"
         /\ arg[p].sector \in sectors_of(arg[p].stock_df)
         /\ entry0(p).mtime = 1)
        => outcome[p].value \in OwnAggregates(p)

\* ------------------------------------------------------------ force_rewrite_all_sector_caches

\* a < b for two str: the first code point that differs decides
RECURSIVE str_lt(_, _)
str_lt(a, b) ==
    IF b = <<>> THEN FALSE
    ELSE IF a = <<>> THEN TRUE
    ELSE IF Head(a) = Head(b) THEN str_lt(Tail(a), Tail(b))
    ELSE Head(a) < Head(b)

\* sorted(names)
RECURSIVE sorted(_)
sorted(names) ==
    IF names = {} THEN <<>>
    ELSE LET least == CHOOSE a \in names : \A b \in names \ {a} : str_lt(a, b)
         IN  <<least>> \o sorted(names \ {least})

\* sectors_series.dropna().astype(str).str.strip(), without "", unique
rewrite_sectors(df) == {strip(s) : s \in sectors_of(df) \ {NoSector}} \ {<<>>}

\* force_rewrite_all_sector_caches(stock_df) is entered: sectors and the
\* empty status
RewriteStart(df) ==
    /\ rewrite.pc = "off"
    /\ \A p \in Procs : pc[p] = "idle"
    /\ rewrite' = [pc |-> "loop", stock_df |-> df,
                   sectors |-> sorted(rewrite_sectors(df)), k |-> 1,
                   status |-> {}, computed |-> {}]
    /\ UNCHANGED <<cache, pc, arg, locals, outcome, strategy, wstatus, unlinked,
                   cache0, fetches, observed>>

\* the call of the loop body for the sector at position k
RewriteCall(p) ==
    /\ rewrite.pc = "loop"
    /\ rewrite.k <= Len(rewrite.sectors)
    /\ Call(p, rewrite.sectors[rewrite.k], rewrite.stock_df, FALSE, TRUE,
            DefaultMaxConcurrency)

\* the call came back: status[sector] is "ok" or the error, and the loop
\* goes on; computed keeps the matrix that is bound to _
RewriteRecord(p) ==
    /\ rewrite.pc = "loop"
    /\ Pop(p)
    /\ LET sector == arg[p].sector
           entry == [sector |-> sector,
                     status |-> IF outcome[p].kind = "return" THEN "ok" ELSE "error",
                     error  |-> outcome[p].error]
       IN  rewrite' = [rewrite EXCEPT
                         !.status = {e \in @ : e.sector # sector} \cup {entry},
                         !.computed = IF outcome[p].kind = "return"
                                      THEN @ \cup {[sector |-> sector,
                                                    matrix |-> outcome[p].value]}
                                      ELSE @,
                         !.k = @ + 1]

\* the loop is over: return status
RewriteReturn ==
    /\ rewrite.pc = "loop"
    /\ rewrite.k > Len(rewrite.sectors)
    /\ \A p \in Procs : pc[p] = "idle"
    /\ rewrite' = [rewrite EXCEPT !.pc = "returned"]
    /\ UNCHANGED <<cache, pc, arg, locals, outcome, strategy, wstatus, unlinked,
                   cache0, fetches, observed>>

\* python -m ... reload-sector-cache: one bulk rewrite, outside an event loop
BulkNext ==
    \/ RewriteStart(BulkDf)
    \/ RewriteCall(1)
    \/ CacheCheck(1)
    \/ SelectTickers(1)
    \/ RunGather(1)
    \/ \E i \in 1..Cardinality(Symbols) : Acquire(1, i)
    \/ \E i \in 1..Cardinality(Symbols), o \in UNION {Outcomes(t) : t \in Symbols} :
          Complete(1, i, o)
    \/ GatherDone(1)
    \/ Collect(1)
    \/ RewriteRecord(1)
    \/ RewriteReturn

SpecBulk == Init /\ [][BulkNext]_vars

\* C20: when force_rewrite_all_sector_caches has returned, status has one
\* entry for each distinct non-blank sector of the table, whether or not a
\* sector before it failed, and every sector with status "ok" has a cache
\* entry that is the matrix computed for it in the run.
C20_BulkRewrite ==
    rewrite.pc = "returned"
    => /\ {e.sector : e \in rewrite.status} = rewrite_sectors(rewrite.stock_df)
       /\ Cardinality(rewrite.status) = Cardinality(rewrite_sectors(rewrite.stock_df))
       /\ \A e \in rewrite.status :
             e.status = "ok"
             => LET f == cache[get_cache_path_for_sector(e.sector)]
                IN  /\ f.exists
                    /\ readable(f.bytes)
                    /\ [sector |-> e.sector, matrix |-> read_parquet(f.bytes)]
                          \in rewrite.computed

\* ------------------------------------------------------------ caching disabled

\* C21: a call with use_cache=False is never at the read of an entry, at the
\* unlink or in the write, has read, removed and written nothing, and the
\* cache directory holds the files with the bytes and the times it held when
\* the call started, with or without force_refresh and whether the call
\* returns, finds no symbols or gets no data from any ticker.
C21_CachingDisabled ==
    \A p \in Procs :
        (pc[p] # "idle" /\ ~arg[p].use_cache)
        => /\ pc[p] \notin {"cache_read", "cache_unlink", "write", "writing", "flushing"}
           /\ strategy[p] # "hit"
           /\ unlinked[p] = "none"
           /\ wstatus[p] = "none"
           /\ cache = cache0[p]
           /\ pc[p] = "done" =>
                outcome[p] \in {Raise("NoSymbols"), Raise("UnableToBuild"),
                                Raise("SemaphoreValue"), Return(result[p])}

\* a call without use_cache and without force_refresh returned an aggregate
\* while the sector's entry of an earlier run was there
C21_Witness ==
    /\ pc[1] = "done"
    /\ ~arg[1].use_cache /\ ~arg[1].force_refresh
    /\ outcome[1].kind = "return" /\ Aggregated(1)
    /\ entry0(1) = File(to_parquet_bytes(StaleMatrix), 0)
    /\ outcome[1].value # StaleMatrix
    /\ cache = cache0[1]

====
